---- MODULE Spec2Model ----
(***************************************************************************)
(* A model of src/server.js (the current server, lines 177-521): the       *)
(* express-session backed OAuth login, the calendar endpoints with the     *)
(* four-day bucketing, and the file cache of POST /ai.                     *)
(*                                                                         *)
(* Time is counted in hours.  A local calendar day is DAY hours long,      *)
(* except the one day of a daylight-saving change, which is one hour       *)
(* shorter or longer.  A JavaScript Date is the instant it holds; its      *)
(* local fields are computed from the instant, as the runtime does.        *)
(***************************************************************************)
EXTENDS Integers, Sequences, FiniteSets, TLC

VARIABLES
    now,        \* the instant `new Date()` returns
    dstDay,     \* index of the local day with a clock change, or NoDst
    dstShift,   \* hours that day is longer (+1) or shorter (-1) than DAY
    store,      \* the session store's entry for the browser's cookie
    cb,         \* GET /auth/google/callback requests in flight, by slot
    files,      \* the events directory: cache path -> file content
    ai,         \* POST /ai requests in flight, by slot
    resp,       \* the response sent last, with what the request did
    authed,     \* a callback stored a session since it was last destroyed
    loggedOut,  \* a logout destroyed the session, no callback stored since
    login,      \* what the last callback stored, until logout
    probe       \* the input under study, where a specification fixes one

vars == <<now, dstDay, dstShift, store, cb, files, ai, resp,
          authed, loggedOut, login, probe>>

Undef == "undefined"
Null == "null"

------------------------------------------------------------------------------
(* Bounds of the model *)

NumDays == 6        \* local days of the modelled calendar, 0 .. NumDays-1
MaxEvents == 2      \* events in one upstream answer

(* 24 * 60 * 60 * 1000 ms, in hours *)
DAY == 24

Days == 0 .. (NumDays - 1)
NoDst == -1

------------------------------------------------------------------------------
(* The local calendar: day 0 is 2025-10-30, so the month changes inside.   *)
(* Months are numbered as Date does, from 0.                               *)

\* the instant local day i begins: the lengths of the days before it
Midnight(i) == i * DAY + (IF dstDay # NoDst /\ dstDay < i THEN dstShift ELSE 0)

DateOf(i) ==
    IF i < 2 THEN [y |-> 2025, m |-> 9, d |-> 30 + i]
             ELSE [y |-> 2025, m |-> 10, d |-> i - 1]

\* MakeDay: the day index of (y, m, d), d beyond the month carried over
DayIndex(y, m, d) == (IF m = 9 THEN -29 ELSE 2) + d - 1

\* the local day an instant falls in
LocalDay(t) ==
    LET guess == t \div DAY
    IN  IF t < Midnight(guess) THEN guess - 1
        ELSE IF t >= Midnight(guess + 1) THEN guess + 1
        ELSE guess

\* the clock changes at 02:00: a skipped hour reads as the next one, a
\* repeated hour as its first occurrence
LocalTime(i, h) ==
    Midnight(i) + h +
        (IF i = dstDay /\ ((dstShift = 1 /\ h >= 2) \/ (dstShift = -1 /\ h >= 3))
         THEN dstShift ELSE 0)

LocalHour(t) ==
    LET i == LocalDay(t)
        off == t - Midnight(i)
    IN  IF i = dstDay /\ off >= 2 THEN off - dstShift ELSE off

getFullYear(t) == DateOf(LocalDay(t)).y
getMonth(t) == DateOf(LocalDay(t)).m
getDate(t) == DateOf(LocalDay(t)).d

\* new Date(y, m, d): local midnight
NewDate(y, m, d) == LocalTime(DayIndex(y, m, d), 0)

\* d.setDate(n): same local month and time of day, day of month n
setDate(t, n) == LocalTime(DayIndex(getFullYear(t), getMonth(t), n), LocalHour(t))

startOfDay(t) == NewDate(getFullYear(t), getMonth(t), getDate(t))
endOfDay(t) == LocalTime(DayIndex(getFullYear(t), getMonth(t), getDate(t)), 23)

\* `${y}-${m}-${d}` with m and d padded to two digits: the three numbers
\* (the month counted from 1) stand for the string, which they determine
DateKey(y, m, d) == <<y, m + 1, d>>
\* an Invalid Date gives "NaN-NaN-NaN", which no date gives
NaNKey == <<0, 0, 0>>

------------------------------------------------------------------------------
(* Calendar events as the calendar API returns them: `start` holds a       *)
(* dateTime (a timestamp with offset, here its instant), a date (an        *)
(* all-day "YYYY-MM-DD", here <<y, month from 1, d>>), both, or neither.   *)

NoStart == [kind |-> "none"]
Timed(t) == [kind |-> "dateTime", dateTime |-> t]
AllDay(i) == [kind |-> "date", date |-> DateKey(DateOf(i).y, DateOf(i).m, DateOf(i).d)]
TimedAndAllDay(t, i) ==
    [kind |-> "both", dateTime |-> t,
     date |-> DateKey(DateOf(i).y, DateOf(i).m, DateOf(i).d)]

\* const toKey = (event) => ...
toKey(event) ==
    IF event.kind \in {"dateTime", "both"}
    THEN \* start.length > 10: new Date(start)
         LET dateObj == event.dateTime
         IN  DateKey(getFullYear(dateObj), getMonth(dateObj), getDate(dateObj))
    ELSE IF event.kind = "date"
    THEN \* new Date(start + 'T00:00:00'): local midnight of the date
         LET dateObj == NewDate(event.date[1], event.date[2] - 1, event.date[3])
         IN  DateKey(getFullYear(dateObj), getMonth(dateObj), getDate(dateObj))
    ELSE \* new Date('undefinedT00:00:00') is an Invalid Date
         NaNKey

EmptyMap == [k \in {} |-> <<>>]

\* if (!buckets.has(key)) buckets.set(key, []); buckets.get(key).push(ev)
BucketsPushLost(b, key, ev) == b @@ (key :> <<ev>>)

BucketsPush(b, key, ev) ==
    IF key \in DOMAIN b THEN [b EXCEPT ![key] = Append(@, ev)]
                        ELSE b @@ (key :> <<ev>>)

\* for (const ev of items) { ... }
RECURSIVE BucketsFrom(_, _, _)
BucketsFrom(items, k, b) ==
    IF k > Len(items) THEN b
    ELSE BucketsFrom(items, k + 1, BucketsPush(b, toKey(items[k]), items[k]))

Buckets(items) == BucketsFrom(items, 1, EmptyMap)

\* d.toDateString(), for the days the model's calendar can name
DateStrings ==
    <<"Wed Oct 29 2025", "Thu Oct 30 2025", "Fri Oct 31 2025", "Sat Nov 01 2025",
      "Sun Nov 02 2025", "Mon Nov 03 2025", "Tue Nov 04 2025", "Wed Nov 05 2025",
      "Thu Nov 06 2025", "Fri Nov 07 2025", "Sat Nov 08 2025">>

toDateString(d) == DateStrings[LocalDay(d) + 2]

\* const formatLabel = (d, baseToday) => ...
formatLabel(d, baseToday) ==
    LET delta == (startOfDay(d) - baseToday) \div DAY
    IN  IF delta = -1 THEN "Yesterday"
        ELSE IF delta = 0 THEN "Today"
        ELSE IF delta = 1 THEN "Tomorrow"
        ELSE IF delta = 2 THEN "Day After"
        ELSE toDateString(d)

\* today, yesterday, tomorrow, dayAfter of the four-day handler
Today == startOfDay(now)
Yesterday == setDate(Today, getDate(Today) - 1)
Tomorrow == setDate(Today, getDate(Today) + 1)
DayAfter == setDate(Today, getDate(Today) + 2)

FourDays == <<Yesterday, Today, Tomorrow, DayAfter>>

\* const days = [yesterday, today, tomorrow, dayAfter].map((d) => ...)
DaysOf(items) ==
    LET buckets == Buckets(items)
    IN  [n \in 1 .. 4 |->
            LET d == FourDays[n]
                key == DateKey(getFullYear(d), getMonth(d), getDate(d))
            IN  [key |-> key,
                 label |-> formatLabel(d, Today),
                 events |-> IF key \in DOMAIN buckets THEN buckets[key] ELSE <<>>]]

------------------------------------------------------------------------------
(* The session of the one browser (cookie) the model follows.  The store   *)
(* holds nothing for it (saveUninitialized: false) or the session a        *)
(* callback saved.  A field of a JSON body that is missing is Undef.       *)

NoSession == [kind |-> "none"]
Absent == [set |-> FALSE]

\* req.session of a request: the stored session, or a fresh empty one
Load(st) == IF st = NoSession THEN [kind |-> "session", user |-> Absent, tokens |-> Absent]
                              ELSE st

\* req.session.user = { id, name, email, picture }
SessionUser(userInfo) ==
    [set |-> TRUE, id |-> userInfo.id, name |-> userInfo.name,
     email |-> userInfo.email, picture |-> userInfo.picture]

\* req.session.tokens = { access_token, refresh_token }
SessionTokens(tokens) ==
    [set |-> TRUE, access_token |-> tokens.access_token,
     refresh_token |-> tokens.refresh_token]

\* JSON.stringify(user) === '{}': every field undefined
StringifiesEmpty(user) ==
    /\ user.id = Undef /\ user.name = Undef
    /\ user.email = Undef /\ user.picture = Undef

\* req.session.user && JSON.stringify(req.session.user) !== '{}'
UserShown(sess) == sess.user.set /\ ~StringifiesEmpty(sess.user)

\* !req.session.tokens?.access_token is false
HasAccessTokenUnchecked(sess) == TRUE

HasAccessToken(sess) == sess.tokens.set /\ sess.tokens.access_token # Undef

\* req.session.destroy(cb): the store drops the session; when the store
\* reports an error the session may or may not be gone
DestroyKept(st, err) == {st}

Destroyed(st, err) == IF err THEN {st, NoSession} ELSE {NoSession}

(* what the external endpoints can answer *)

TokenOk == {[access_token |-> "at1", refresh_token |-> "rt1", error |-> Undef],
            [access_token |-> "at2", refresh_token |-> Undef, error |-> Undef]}
TokenError == [access_token |-> Undef, refresh_token |-> Undef, error |-> "invalid_grant"]

ProfileOk == {[id |-> "u1", name |-> "n1", email |-> "e1", picture |-> "p1", error |-> Undef],
              [id |-> "u2", name |-> "n2", email |-> "e2", picture |-> Undef, error |-> Undef]}
ProfileError == [id |-> Undef, name |-> Undef, email |-> Undef, picture |-> Undef,
                 error |-> "invalid_token"]

Rejects == [kind |-> "reject"]
Body(b) == [kind |-> "json", body |-> b]

TokenOutcomes == {Rejects} \cup {Body(b) : b \in TokenOk \cup {TokenError}}

\* the userinfo endpoint gives a profile only to a bearer of an access token
ProfileOutcomes(tokens) ==
    {Rejects, Body(ProfileError)} \cup
        (IF tokens.access_token # Undef THEN {Body(b) : b \in ProfileOk} ELSE {})

NumCbSlots == 1     \* callback requests in flight at once
CbSlots == 1 .. NumCbSlots

Gated == {"me", "today", "four-days", "debug"}
NoLogin == [set |-> FALSE]

\* res.status(401).json({ error })
Unauthorized(ep, msg) ==
    [ep |-> ep, status |-> 401, error |-> msg, location |-> Undef, calls |-> 0]

\* res.redirect(location)
Redirect(ep, location) ==
    [ep |-> ep, status |-> 302, error |-> Undef, location |-> location, calls |-> 0]

\* an async handler that rejects with nothing to catch it: no answer of the
\* handler's own, the framework's server error at best
Unhandled(ep, calls) ==
    [ep |-> ep, status |-> 500, error |-> Undef, location |-> Undef, calls |-> calls,
     unhandled |-> TRUE]

------------------------------------------------------------------------------
(* The session endpoints *)

timeVars == <<now, dstDay, dstShift>>
aiVars == <<files, ai>>
sessVars == <<store, cb, authed, loggedOut, login>>

\* app.get('/me', ...)
Me ==
    /\ LET sess == Load(store)
       IN  resp' = IF UserShown(sess)
                   THEN [ep |-> "me", status |-> 200, error |-> Undef,
                         location |-> Undef, calls |-> 0, body |-> sess.user]
                   ELSE Unauthorized("me", "Not logged in")
    /\ UNCHANGED <<sessVars, timeVars, aiVars, probe>>

\* app.get('/auth/logout', ...): err is what the store reports to the callback
Logout(err) ==
    /\ store' \in Destroyed(store, err)
    /\ resp' = [destroyErr |-> err] @@ Redirect("logout", "/")
    /\ authed' = IF store' = NoSession THEN FALSE ELSE authed
    /\ loggedOut' = IF err THEN loggedOut ELSE TRUE
    /\ login' = NoLogin
    /\ UNCHANGED <<cb, timeVars, aiVars, probe>>

\* app.get('/auth/google', ...)
Initiate ==
    /\ resp' = [scope |-> <<"openid", "profile", "email", "calendar.readonly">>,
                access_type |-> "offline", prompt |-> "consent"]
               @@ Redirect("auth", "https://accounts.google.com/o/oauth2/v2/auth")
    /\ UNCHANGED <<sessVars, timeVars, aiVars, probe>>

\* app.get('/auth/google/callback', ...): the request arrives and posts the
\* code to the token endpoint
CallbackStart(s) ==
    /\ cb[s].pc = "idle"
    /\ cb' = [cb EXCEPT ![s] = [pc |-> "token"]]
    /\ UNCHANGED <<store, authed, loggedOut, login, resp, timeVars, aiVars, probe>>

\* await fetch(token endpoint); await tokenRes.json(); fetch(userinfo)
CallbackToken(s, out) ==
    /\ cb[s].pc = "token"
    /\ IF out.kind = "reject"
       THEN /\ cb' = [cb EXCEPT ![s] = [pc |-> "idle"]]
            /\ resp' = [tokenOk |-> FALSE, profileOk |-> FALSE] @@ Unhandled("callback", 1)
       ELSE /\ cb' = [cb EXCEPT ![s] = [pc |-> "profile", tokens |-> out.body]]
            /\ resp' = resp
    /\ UNCHANGED <<store, authed, loggedOut, login, timeVars, aiVars, probe>>

\* await fetch(userinfo); await userRes.json(); the session writes; redirect
CallbackProfile(s, out) ==
    /\ cb[s].pc = "profile"
    /\ out \in ProfileOutcomes(cb[s].tokens)
    /\ cb' = [cb EXCEPT ![s] = [pc |-> "idle"]]
    /\ LET tokens == cb[s].tokens
           tokenOk == tokens.access_token # Undef
       IN  IF out.kind = "reject"
           THEN /\ resp' = [tokenOk |-> tokenOk, profileOk |-> FALSE]
                           @@ Unhandled("callback", 2)
                /\ UNCHANGED <<store, authed, loggedOut, login>>
           ELSE LET userInfo == out.body
                    profileOk == userInfo.id # Undef
                IN  /\ store' = [kind |-> "session", user |-> SessionUser(userInfo),
                                 tokens |-> SessionTokens(tokens)]
                    /\ resp' = [tokenOk |-> tokenOk, profileOk |-> profileOk, calls |-> 2]
                               @@ Redirect("callback", "/")
                    /\ authed' = TRUE
                    /\ loggedOut' = FALSE
                    /\ login' = IF tokenOk /\ profileOk
                                THEN [set |-> TRUE, user |-> userInfo, tokens |-> tokens]
                                ELSE login
    /\ UNCHANGED <<timeVars, aiVars, probe>>

------------------------------------------------------------------------------
(* The calendar endpoints.  `up` is what the calendar API answers: the     *)
(* call rejects, or a JSON body with an event list, or one without (the    *)
(* API's error shape).                                                     *)

Items(items) == [kind |-> "items", items |-> items]
ErrorShape == [kind |-> "error"]

\* eventsData.items || []
ItemsOrNone(up) == IF up.kind = "items" THEN up.items ELSE <<>>

\* app.get('/calendar/today', ...)
CalendarToday(up) ==
    /\ LET sess == Load(store)
           startOfToday == NewDate(getFullYear(now), getMonth(now), getDate(now))
           endOfWindow == NewDate(getFullYear(now), getMonth(now), getDate(now) + 3)
       IN  resp' =
             IF ~HasAccessToken(sess) THEN Unauthorized("today", "Not authenticated")
             ELSE IF up.kind = "reject"
             THEN [failed |-> TRUE] @@ Unhandled("today", 1)
             ELSE [ep |-> "today", status |-> 200, error |-> Undef, location |-> Undef,
                   calls |-> 1, failed |-> (up.kind # "items"),
                   timeMin |-> startOfToday, timeMax |-> endOfWindow,
                   body |-> ItemsOrNone(up)]
    /\ UNCHANGED <<sessVars, timeVars, aiVars, probe>>

\* app.get('/calendar/four-days', ...)
CalendarFourDays(up) ==
    /\ LET sess == Load(store)
       IN  resp' =
             IF ~HasAccessToken(sess) THEN Unauthorized("four-days", "Not authenticated")
             ELSE IF up.kind = "reject"
             THEN [ep |-> "four-days", status |-> 500, error |-> "err.message",
                   location |-> Undef, calls |-> 1, failed |-> TRUE]
             ELSE [ep |-> "four-days", status |-> 200, error |-> Undef, location |-> Undef,
                   calls |-> 1, failed |-> (up.kind # "items"),
                   timeMin |-> Yesterday, timeMax |-> endOfDay(DayAfter),
                   items |-> ItemsOrNone(up),
                   days |-> DaysOf(ItemsOrNone(up))]
    /\ UNCHANGED <<sessVars, timeVars, aiVars, probe>>

\* the calendars before the first whose events call rejects, or all of them
RECURSIVE FetchedUntilReject(_, _)
FetchedUntilReject(cals, k) ==
    IF k > Len(cals) \/ cals[k].kind = "reject" THEN k - 1
    ELSE FetchedUntilReject(cals, k + 1)

\* app.get('/calendar/debug', ...): up.cals holds, per listed calendar, what
\* its events call answers
CalendarDebug(up) ==
    /\ LET sess == Load(store)
       IN  resp' =
             IF ~HasAccessToken(sess) THEN Unauthorized("debug", "Not authenticated")
             ELSE IF up.kind = "reject"
             THEN [ep |-> "debug", status |-> 500, error |-> "err.message",
                   location |-> Undef, calls |-> 1, failed |-> TRUE]
             ELSE IF up.kind = "error"
             THEN [ep |-> "debug", status |-> 500, error |-> "Could not fetch calendars",
                   location |-> Undef, calls |-> 1, failed |-> TRUE]
             ELSE LET cals == up.cals
                      done == FetchedUntilReject(cals, 1)
                  IN  IF done < Len(cals)
                      THEN [ep |-> "debug", status |-> 500, error |-> "err.message",
                            location |-> Undef, calls |-> done + 2, failed |-> TRUE]
                      ELSE [ep |-> "debug", status |-> 200, error |-> Undef,
                            location |-> Undef, calls |-> Len(cals) + 1,
                            failed |-> (\E k \in 1 .. Len(cals) : cals[k].kind # "items"),
                            body |-> [k \in 1 .. Len(cals) |->
                                        [calendarId |-> k,
                                         events |-> ItemsOrNone(cals[k])]]]
    /\ UNCHANGED <<sessVars, timeVars, aiVars, probe>>

------------------------------------------------------------------------------
(* POST /ai and its file cache.  A string is the sequence of its           *)
(* characters; a path is the sequence of its segments.                     *)

Lower == {
     "a", "b", "c", "d", "e", "f", "g", "h", "i", "j", "k", "l", "m",
     "n", "o", "p", "q", "r", "s", "t", "u", "v", "w", "x", "y", "z"}
Upper == {
     "A", "B", "C", "D", "E", "F", "G", "H", "I", "J", "K", "L", "M",
     "N", "O", "P", "Q", "R", "S", "T", "U", "V", "W", "X", "Y", "Z"}
Digit == {
     "0", "1", "2", "3", "4", "5", "6", "7", "8", "9"}

\* the characters /[^a-zA-Z0-9_-]/g leaves alone
SafeChars == Lower \cup Upper \cup Digit \cup {"_", "-"}

\* const sanitizeEventId = (id) => (id || '').toString().replace(..., '_')
sanitizeEventIdKeepsDots(id) ==
    [k \in 1 .. Len(id) |-> IF id[k] \in SafeChars \cup {".", "/"} THEN id[k] ELSE "_"]

sanitizeEventId(id) ==
    [k \in 1 .. Len(id) |-> IF id[k] \in SafeChars THEN id[k] ELSE "_"]

\* const EVENTS_DIR = path.join(__dirname, 'events')
EVENTS_DIR == <<"__dirname", "events">>
JsonExt == <<".", "j", "s", "o", "n">>
PathSeps == {"/", "\\"}

\* the segments of a name, cut at the separators
RECURSIVE Segments(_, _, _)
Segments(name, k, cur) ==
    IF k > Len(name) THEN <<cur>>
    ELSE IF name[k] \in PathSeps THEN <<cur>> \o Segments(name, k + 1, <<>>)
    ELSE Segments(name, k + 1, Append(cur, name[k]))

\* path normalisation: "" and "." are dropped, ".." leaves the directory
RECURSIVE Normalize(_, _, _)
Normalize(segs, k, out) ==
    IF k > Len(segs) THEN out
    ELSE IF segs[k] = <<>> \/ segs[k] = <<".">> THEN Normalize(segs, k + 1, out)
    ELSE IF segs[k] = <<".", ".">>
    THEN Normalize(segs, k + 1, IF out = <<>> THEN out ELSE SubSeq(out, 1, Len(out) - 1))
    ELSE Normalize(segs, k + 1, Append(out, segs[k]))

\* path.join(dir, name), dir already normal
PathJoin(dir, name) == Normalize(Segments(name, 1, <<>>), 1, dir)

\* cachePath = path.join(EVENTS_DIR, `${safeId}.json`)
CacheFileName(eventId) == sanitizeEventId(eventId) \o JsonExt
CachePath(eventId) == PathJoin(EVENTS_DIR, CacheFileName(eventId))

\* a value a condition takes as true: neither missing nor ''
Truthy(v) == v # Undef /\ v # ""
OrNull(v) == IF Truthy(v) THEN v ELSE Null

\* if (!title && !description && !time)
MissingEventDataUnlessId(body) ==
    ~Truthy(body.title) /\ ~Truthy(body.description) /\ ~Truthy(body.time)
    /\ ~(body.hasId /\ body.eventId # <<>>)

MissingEventData(body) ==
    ~Truthy(body.title) /\ ~Truthy(body.description) /\ ~Truthy(body.time)

\* if (eventId)
HasEventId(body) == body.hasId /\ body.eventId # <<>>

NoFile == [kind |-> "none"]
Corrupt == [kind |-> "corrupt"]

\* JSON.stringify({ text, meta: { title, time, description, generatedAt } })
CacheEntryOfTitle(text, body) ==
    [kind |-> "entry", text |-> OrNull(body.title),
     meta |-> [title |-> OrNull(body.title), time |-> OrNull(body.time),
               description |-> OrNull(body.description), generatedAt |-> now]]

CacheEntryUnparseable(text, body) == Corrupt

CacheEntryKeepsMeta(text, body) ==
    [kind |-> "entry", text |-> text,
     meta |-> IF files[CachePath(body.eventId)].kind = "entry"
              THEN files[CachePath(body.eventId)].meta
              ELSE [title |-> OrNull(body.title), time |-> OrNull(body.time),
                    description |-> OrNull(body.description), generatedAt |-> now]]

CacheEntry(text, body) ==
    [kind |-> "entry", text |-> text,
     meta |-> [title |-> OrNull(body.title), time |-> OrNull(body.time),
               description |-> OrNull(body.description), generatedAt |-> now]]

\* the text of a generation result: result.response.text, else result.text,
\* else result.candidates[0].content.parts[0].text, else ''
ExtractTextDirectFirst(result) ==
    IF Truthy(result.text) THEN result.text
    ELSE IF Truthy(result.responseText) THEN result.responseText
    ELSE IF Truthy(result.partText) THEN result.partText
    ELSE ""

ExtractText(result) ==
    IF Truthy(result.responseText) THEN result.responseText
    ELSE IF Truthy(result.text) THEN result.text
    ELSE IF Truthy(result.partText) THEN result.partText
    ELSE ""

NumAiSlots == 1     \* POST /ai requests in flight at once
AiSlots == 1 .. NumAiSlots

(* the requests and answers the model draws from *)

AiEventIds == {<<"a">>, <<"a", ".">>, <<"a", "_">>}
AiPaths == {CachePath(e) : e \in AiEventIds}

AiFields == {[title |-> Undef, description |-> Undef, time |-> Undef],
             [title |-> "", description |-> "", time |-> ""],
             [title |-> "x", description |-> Undef, time |-> Undef],
             [title |-> Undef, description |-> "x", time |-> "x"]}

AiBody(h, e, f) ==
    [hasId |-> h, eventId |-> e, title |-> f.title, description |-> f.description,
     time |-> f.time]

AiBodies ==
    {AiBody(TRUE, e, f) : e \in AiEventIds \cup {<<>>}, f \in AiFields}
    \cup {AiBody(FALSE, <<>>, f) : f \in AiFields}

GenTexts == {Undef, "", "t1", "t2"}
GenResults == [responseText : GenTexts, text : GenTexts, partText : {Undef, "t1"}]
GenOutcomes == {Rejects} \cup {Body(r) : r \in GenResults}

NoResp == [ep |-> "none"]

\* the eventId a request carries, '' when it carries none
GivenId(body) == IF body.hasId THEN body.eventId ELSE <<>>

\* the answer sent last, when it was to a POST /ai with this eventId
AnswerBefore(body) ==
    IF resp.ep = "ai" /\ resp.eventId = GivenId(body)
    THEN [any |-> TRUE, status |-> resp.status, text |-> resp.text,
          cached |-> resp.cached, stored |-> resp.stored]
    ELSE [any |-> FALSE]

\* what a POST /ai answer is (cached is FALSE also where the body has no
\* `cached`), with what the request did: the generation call made or not,
\* the cache files read and written, the text left in the cache file or not
AiResp(body, status, error, text, cached, gen, touched, stored) ==
    [ep |-> "ai", status |-> status, error |-> error, text |-> text, cached |-> cached,
     eventId |-> GivenId(body), title |-> body.title, description |-> body.description,
     time |-> body.time, gen |-> gen, touched |-> touched, stored |-> stored,
     after |-> AnswerBefore(body)]

Idle == [pc |-> "idle"]

\* if (eventId) { ... if (fs.existsSync(cachePath)) { readFileSync; JSON.parse
\* ... } }: the file is there and reads as an entry
CacheHitNever(body) == FALSE

CacheHit(body) == HasEventId(body) /\ files[CachePath(body.eventId)].kind = "entry"

\* app.post('/ai', ...) up to the generation call
AiStart(s, body) ==
    /\ ai[s].pc = "idle"
    /\ IF MissingEventData(body)
       THEN /\ resp' = AiResp(body, 400, "Missing event data (title/description/time)",
                              Undef, FALSE, FALSE, {}, FALSE)
            /\ ai' = ai
       ELSE IF CacheHit(body)
       THEN \* fs.existsSync, readFileSync, JSON.parse: a hit
            /\ resp' = AiResp(body, 200, Undef, files[CachePath(body.eventId)].text, TRUE,
                              FALSE, {<<"read", CachePath(body.eventId)>>}, TRUE)
            /\ ai' = ai
       ELSE \* no eventId, no file, or a file that cannot be read or parsed
            /\ ai' = [ai EXCEPT ![s] =
                        [pc |-> "gen", body |-> body,
                         touched |-> IF HasEventId(body)
                                        /\ files[CachePath(body.eventId)].kind = "corrupt"
                                     THEN {<<"read", CachePath(body.eventId)>>}
                                     ELSE {}]]
            /\ resp' = resp
    /\ UNCHANGED <<files, sessVars, timeVars, probe>>

\* from the generation call's return to the response; written says whether
\* fs.writeFileSync succeeds
AiFinish(s, out, written) ==
    /\ ai[s].pc = "gen"
    /\ ai' = [ai EXCEPT ![s] = Idle]
    /\ LET body == ai[s].body
       IN  IF out.kind = "reject"
           THEN /\ resp' = AiResp(body, 500, "error.message", Undef, FALSE, TRUE,
                                  ai[s].touched, FALSE)
                /\ files' = files
           ELSE LET text == ExtractText(out.body)
                    cachePath == CachePath(body.eventId)
                IN  IF HasEventId(body) /\ Truthy(text)
                    THEN /\ files' = IF written
                                     THEN [files EXCEPT ![cachePath] = CacheEntry(text, body)]
                                     ELSE files
                         /\ resp' = AiResp(body, 200, Undef, text, FALSE, TRUE,
                                           ai[s].touched \cup {<<"write", cachePath>>},
                                           written)
                    ELSE /\ files' = files
                         /\ resp' = AiResp(body, 200, Undef, text, FALSE, TRUE,
                                           ai[s].touched, FALSE)
    /\ UNCHANGED <<sessVars, timeVars, probe>>

------------------------------------------------------------------------------
(* The cache file name and path of one eventId, for every short string     *)
(* over characters inside and outside the sanitizer's class.               *)

MaxIdLen == 3       \* characters of an eventId in the sanitizer specification
ProbeChars == {"a", "Z", "7", "-", "_", ".", "/", "\\"}
ProbeIds == UNION {[1 .. n -> ProbeChars] : n \in 0 .. MaxIdLen}

SanitizeProbe ==
    /\ resp' = [ep |-> "sanitize", eventId |-> probe, name |-> CacheFileName(probe),
                path |-> CachePath(probe)]
    /\ probe' = probe
    /\ UNCHANGED <<sessVars, timeVars, aiVars>>

------------------------------------------------------------------------------
(* Specifications *)

InitSessionPart ==
    /\ store = NoSession
    /\ cb = [s \in CbSlots |-> Idle]
    /\ authed = FALSE
    /\ loggedOut = FALSE
    /\ login = NoLogin

InitAiPart ==
    /\ ai = [s \in AiSlots |-> Idle]

InitClock ==
    /\ dstDay = NoDst
    /\ dstShift = 0
    /\ now = LocalTime(2, 12)

\* the server's sessions and endpoints, at one time of one day
Init ==
    /\ InitClock
    /\ InitSessionPart
    /\ InitAiPart
    /\ files = [p \in AiPaths |-> NoFile]
    /\ resp = NoResp
    /\ probe = <<>>

MaxCalendars == 2   \* calendars in one calendar list
SomeItems == {<<>>, <<NoStart>>, <<AllDay(2), Timed(LocalTime(2, 9))>>}
EventsAnswers == {Rejects, ErrorShape} \cup {Items(i) : i \in SomeItems}
CalAnswers == {Rejects, ErrorShape, Items(<<>>), Items(<<NoStart>>)}
ListAnswers ==
    {Rejects, ErrorShape} \cup
        {[kind |-> "items", cals |-> c] :
            c \in UNION {[1 .. n -> CalAnswers] : n \in 0 .. MaxCalendars}}

Next ==
    \/ Me
    \/ \E err \in BOOLEAN : Logout(err)
    \/ Initiate
    \/ \E s \in CbSlots : CallbackStart(s)
    \/ \E s \in CbSlots, out \in TokenOutcomes : CallbackToken(s, out)
    \/ \E s \in CbSlots, out \in {Rejects} \cup {Body(b) : b \in ProfileOk \cup {ProfileError}} :
          CallbackProfile(s, out)
    \/ \E up \in EventsAnswers : CalendarToday(up)
    \/ \E up \in EventsAnswers : CalendarFourDays(up)
    \/ \E up \in ListAnswers : CalendarDebug(up)

Spec == Init /\ [][Next]_vars

\* GET /calendar/four-days of a logged-in session: today is any day of the
\* modelled calendar that has a day before it and two after it, seen from its
\* first or its last hour, with or without a clock change on a day of the
\* window.  The upstream events are all-day ones of every day, timed ones
\* in the last hour of a day and the first hour of the next, one with both
\* fields and one without start.
EventChoices ==
    {NoStart, TimedAndAllDay(LocalTime(1, 23), 2)}
    \cup {AllDay(i) : i \in Days}
    \cup {Timed(Midnight(i) - 1) : i \in 1 .. 3}
    \cup {Timed(Midnight(i)) : i \in 1 .. 3}

EventLists == UNION {[1 .. n -> EventChoices] : n \in 0 .. MaxEvents}
FourDayAnswers == {Rejects, ErrorShape} \cup {Items(i) : i \in EventLists}

InitFourDay ==
    /\ \E i \in 1 .. (NumDays - 3), h \in {0, 23} :
          /\ dstDay \in {NoDst} \cup (i - 1) .. (i + 2)
          /\ dstShift \in IF dstDay = NoDst THEN {0} ELSE {-1, 1}
          /\ now = LocalTime(i, h)
    /\ \E t \in TokenOk, u \in ProfileOk :
          /\ store = [kind |-> "session", user |-> SessionUser(u), tokens |-> SessionTokens(t)]
          /\ login = [set |-> TRUE, user |-> u, tokens |-> t]
          /\ t.access_token = "at1" /\ u.id = "u1"
    /\ cb = [s \in CbSlots |-> Idle]
    /\ authed = TRUE
    /\ loggedOut = FALSE
    /\ InitAiPart
    /\ files = [p \in AiPaths |-> NoFile]
    /\ resp = NoResp
    /\ probe \in FourDayAnswers

\* the calendar API's answer is the one the behaviour fixed at its start
NextFourDay == CalendarFourDays(probe)

SpecFourDay == InitFourDay /\ [][NextFourDay]_vars

\* POST /ai, one request at a time, over an events directory that may hold
\* files it cannot read
AiQuiet == \A s \in AiSlots : ai[s].pc = "idle"

InitAi ==
    /\ InitClock
    /\ InitSessionPart
    /\ InitAiPart
    /\ files \in [AiPaths -> {NoFile, Corrupt}]
    /\ resp = NoResp
    /\ probe = <<>>

NextAi ==
    \/ \E s \in AiSlots, body \in AiBodies : AiQuiet /\ AiStart(s, body)
    \/ \E s \in AiSlots, out \in GenOutcomes, written \in BOOLEAN : AiFinish(s, out, written)

SpecAi == InitAi /\ [][NextAi]_vars

\* POST /ai requests that overlap: a request may arrive while others wait
\* for their generation call.  The generation API answers each request in
\* flight with a text of its own, with none, or rejects.
NumRacing == 2      \* POST /ai requests in flight at once, where they overlap
RaceSlots == 1 .. NumRacing

RaceTexts == <<"r1", "r2", "r3", "r4">>
RaceText(s) == RaceTexts[s]

RaceBodies ==
    {AiBody(TRUE, e, [title |-> "x", description |-> Undef, time |-> Undef]) :
        e \in AiEventIds}
    \cup {AiBody(TRUE, <<"a">>, f) : f \in AiFields}

RaceOutcomes(s) ==
    {Rejects} \cup
        {Body([responseText |-> x, text |-> Undef, partText |-> Undef]) :
            x \in {"", RaceText(s)}}

InitAiRace ==
    /\ InitClock
    /\ InitSessionPart
    /\ ai = [s \in RaceSlots |-> Idle]
    /\ files = [p \in AiPaths |-> NoFile]
    /\ resp = NoResp
    /\ probe = <<>>

NextAiRace ==
    \/ \E s \in RaceSlots, body \in RaceBodies : AiStart(s, body)
    \/ \E s \in RaceSlots : \E out \in RaceOutcomes(s), written \in BOOLEAN :
          AiFinish(s, out, written)

SpecAiRace == InitAiRace /\ [][NextAiRace]_vars

\* POST /ai where the generation call answers with one result, fixed at
\* the start: each of result.response.text, result.text and
\* result.candidates[0].content.parts[0].text is missing, empty or a text
ExtractResults == [responseText : GenTexts, text : GenTexts, partText : GenTexts]

ExtractBodies ==
    {AiBody(TRUE, <<"a">>, [title |-> "x", description |-> Undef, time |-> Undef]),
     AiBody(FALSE, <<>>, [title |-> Undef, description |-> "x", time |-> "x"])}

InitExtract ==
    /\ InitClock
    /\ InitSessionPart
    /\ InitAiPart
    /\ files = [p \in AiPaths |-> NoFile]
    /\ resp = NoResp
    /\ probe \in ExtractResults

NextExtract ==
    \/ \E s \in AiSlots, body \in ExtractBodies : AiQuiet /\ AiStart(s, body)
    \/ \E s \in AiSlots, written \in BOOLEAN : AiFinish(s, Body(probe), written)

SpecExtract == InitExtract /\ [][NextExtract]_vars

InitSanitize ==
    /\ InitClock
    /\ InitSessionPart
    /\ InitAiPart
    /\ files = [p \in AiPaths |-> NoFile]
    /\ resp = NoResp
    /\ probe \in ProbeIds

NextSanitize == SanitizeProbe

SpecSanitize == InitSanitize /\ [][NextSanitize]_vars

------------------------------------------------------------------------------
(* The claims *)

\* C1: a request to a session-gated endpoint (GET /me, /calendar/today,
\* /calendar/four-days, /calendar/debug) on a session for which no callback
\* has stored anything, or none since logout destroyed it, is answered 401
\* with an `error` field, and issues no external call.
C1_GatedWithoutLoginIs401 ==
    (~authed /\ resp.ep \in Gated) =>
        (resp.status = 401 /\ resp.error # Undef /\ resp.calls = 0)

\* C1's case: after a logout destroyed the session, /calendar/debug is refused
C1_RefusedAfterLogout ==
    loggedOut /\ ~authed /\ resp.ep = "debug" /\ resp.status = 401

\* C2: an answered GET /calendar/four-days holds exactly four buckets, keyed
\* yesterday, today, tomorrow, the day after, and labelled Yesterday, Today,
\* Tomorrow, Day After in that order, at every date and time, also next to a
\* clock change.
C2_FourBucketsLabelled ==
    (resp.ep = "four-days" /\ resp.status = 200) =>
        /\ Len(resp.days) = 4
        /\ \A n \in 1 .. 4 :
              LET day == DateOf(LocalDay(now) + n - 2)
              IN  resp.days[n].key = DateKey(day.y, day.m, day.d)
        /\ [n \in 1 .. 4 |-> resp.days[n].label]
              = <<"Yesterday", "Today", "Tomorrow", "Day After">>

\* C3: each bucket of GET /calendar/four-days holds exactly the upstream
\* events whose date key (from start.dateTime if present, else start.date)
\* is the bucket's key, in upstream order; the four keys differ, so no event
\* is in two buckets, and an event with another key, or with no start, is in
\* none and is no error.
C3_BucketsAreTheEventsOfTheDay ==
    (resp.ep = "four-days" /\ resp.status = 200) =>
        /\ \A n \in 1 .. 4 :
              resp.days[n].events =
                  SelectSeq(resp.items, LAMBDA e : toKey(e) = resp.days[n].key)
        /\ \A m, n \in 1 .. 4 : m # n => resp.days[m].key # resp.days[n].key

\* C3's case: an all-day and a timed event of one local day in one bucket,
\* on a day with a clock change
C3_TimedAndAllDayShareBucket ==
    /\ resp.ep = "four-days" /\ resp.status = 200
    /\ dstDay # NoDst
    /\ \E n \in 1 .. 4 :
          /\ Len(resp.days[n].events) = 2
          /\ resp.days[n].events[1].kind = "date"
          /\ resp.days[n].events[2].kind = "dateTime"
          /\ LocalDay(now) + n - 2 = dstDay

\* the requests C4 speaks of: one carrying an eventId and at least one of
\* title/description/time, sent right after one with that eventId that was
\* answered 200 with a text
C4_Repeat ==
    /\ resp.ep = "ai" /\ resp.eventId # <<>>
    /\ (Truthy(resp.title) \/ Truthy(resp.description) \/ Truthy(resp.time))
    /\ resp.after.any /\ resp.after.status = 200

C4_ServedFromCache ==
    /\ resp.status = 200 /\ resp.cached = TRUE
    /\ resp.text = resp.after.text /\ ~resp.gen

\* C4 as stated: the second of two successive POST /ai requests with one
\* eventId is answered cached:true with the first one's text, without a
\* generation call.
C4_RepeatIsCached == C4_Repeat => C4_ServedFromCache

\* C4 as amended: ... when the first was answered 200 with a non-empty text
\* that it read from the cache file or wrote to it.
C4_RepeatIsCachedWhenStored ==
    (C4_Repeat /\ Truthy(resp.after.text) /\ resp.after.stored)
        => C4_ServedFromCache

\* C4's case: a generated text, served again from the cache
C4_HitAfterMiss ==
    /\ C4_Repeat /\ resp.after.cached = FALSE
    /\ resp.cached = TRUE /\ resp.text = resp.after.text

\* C5: the cache file name of every eventId is characters of [a-zA-Z0-9_-]
\* followed by ".json", so the cache path is a file directly inside the
\* events directory.
C5_CacheFileInsideEventsDir ==
    resp.ep = "sanitize" =>
        LET n == Len(resp.name) - Len(JsonExt)
        IN  /\ n = Len(resp.eventId)
            /\ SubSeq(resp.name, n + 1, Len(resp.name)) = JsonExt
            /\ \A k \in 1 .. n : resp.name[k] \in SafeChars
            /\ resp.path = Append(EVENTS_DIR, resp.name)

\* C5's case: an eventId that climbs out of a directory
C5_TraversalId ==
    resp.ep = "sanitize" /\ resp.eventId = <<".", ".", "/">>

\* C6: a POST /ai with title, description and time all absent, with or
\* without an eventId, is answered 400 with an `error` field; it neither
\* reads nor writes the cache, calls no generation, and leaves the cache
\* files as they were.
C6_MissingDataIs400 ==
    [][(/\ resp'.ep = "ai"
        /\ ~Truthy(resp'.title) /\ ~Truthy(resp'.description) /\ ~Truthy(resp'.time))
       => (/\ resp'.status = 400 /\ resp'.error # Undef
           /\ resp'.touched = {} /\ ~resp'.gen
           /\ files' = files)]_vars

\* C6's case: refused although the cache holds an entry for the eventId
C6_RefusedBesideCachedEntry ==
    /\ resp.ep = "ai" /\ resp.status = 400 /\ resp.eventId # <<>>
    /\ resp.title = Undef /\ resp.description = Undef /\ resp.time = Undef
    /\ files[CachePath(resp.eventId)].kind = "entry"

\* C7: every GET /auth/logout is answered with a redirect to `/`, whether
\* or not the destruction reports an error; once a destruction succeeded,
\* the session-gated endpoints answer 401 until a callback stores a session.
C7_LogoutRedirectsAndLocksOut ==
    /\ resp.ep = "logout" => (resp.status = 302 /\ resp.location = "/")
    /\ (loggedOut /\ resp.ep \in Gated) => resp.status = 401

\* C7's case: GET /me refused after the logout of a logged-in session
C7_MeRefusedAfterLogout ==
    loggedOut /\ resp.ep = "me" /\ resp.status = 401

\* C8: after a callback whose token exchange and profile fetch succeed, the
\* session holds the profile's {id, name, email, picture} and the token
\* response's {access_token, refresh_token}, and from then until logout GET
\* /me answers 200 with that user and the calendar endpoints pass their gate.
C8_LoginLastsUntilLogout ==
    login.set =>
        /\ store = [kind |-> "session",
                    user |-> [set |-> TRUE, id |-> login.user.id, name |-> login.user.name,
                              email |-> login.user.email, picture |-> login.user.picture],
                    tokens |-> [set |-> TRUE, access_token |-> login.tokens.access_token,
                                refresh_token |-> login.tokens.refresh_token]]
        /\ (resp.ep = "callback" /\ resp.tokenOk /\ resp.profileOk)
              => (resp.status = 302 /\ resp.location = "/")
        /\ resp.ep = "me" => (resp.status = 200 /\ resp.body.id = login.user.id)
        /\ resp.ep \in {"today", "four-days", "debug"} => resp.status # 401

\* C9: an authenticated calendar request whose external call rejects or
\* answers without an event list is answered 500 with an `error` field,
\* never 200.
C9_UpstreamFailureIs500 ==
    (resp.ep \in {"today", "four-days", "debug"} /\ resp.calls > 0 /\ resp.failed) =>
        (resp.status = 500 /\ resp.error # Undef)

\* C10: a callback whose token exchange or profile fetch fails (rejects, or
\* answers an error body) ends in a server error: no redirect to `/`, and
\* the session's user and tokens stay as they were.
C10_FailedCallbackLeavesSession ==
    [][(/\ cb' # cb
        /\ resp'.ep = "callback"
        /\ ~(resp'.tokenOk /\ resp'.profileOk))
       => (resp'.status = 500 /\ resp'.location # "/" /\ store' = store)]_vars

\* C11: after any sequence of initiate, callback and logout requests on one
\* session, a session that holds tokens with an access token (the calendar
\* gate passes) also holds a user that GET /me shows: a GET /me on such a
\* session is answered 200.
C11_TokensImplyUser ==
    HasAccessToken(Load(store)) =>
        /\ UserShown(Load(store))
        /\ resp.ep = "me" => resp.status = 200

\* C12 as stated: once a cache file holds an entry, no POST /ai request, in
\* any interleaving of requests, changes the file's content.
C12_WriteOnce ==
    [][\A p \in AiPaths : files[p].kind = "entry" => files'[p] = files[p]]_vars

\* C12 as amended: a request that arrives when the cache file of its eventId
\* holds an entry never goes on to the generation call and leaves the files
\* as they are; a cache file changes only when a request that had missed it
\* on arrival comes back from its generation call.
C12_ChangedOnlyByEarlierMiss ==
    [][/\ \A s \in DOMAIN ai :
             (ai[s].pc = "idle" /\ ai'[s].pc = "gen" /\ HasEventId(ai'[s].body))
                => /\ files[CachePath(ai'[s].body.eventId)].kind # "entry"
                   /\ files' = files
       /\ \A p \in AiPaths :
             files'[p] # files[p]
                => \E s \in DOMAIN ai :
                      /\ ai[s].pc = "gen" /\ ai'[s].pc = "idle"
                      /\ HasEventId(ai[s].body)
                      /\ CachePath(ai[s].body.eventId) = p
       /\ (resp' # resp /\ resp'.ep = "ai" /\ resp'.cached) => files' = files]_vars

\* C12's case: a request served from the entry while a request that missed
\* the same file before the entry was written still waits for its generation
C12_HitWhileEarlierMissInFlight ==
    /\ resp.ep = "ai" /\ resp.cached
    /\ \E s \in DOMAIN ai :
          /\ ai[s].pc = "gen" /\ HasEventId(ai[s].body)
          /\ ai[s].body.eventId = resp.eventId

\* the cache files a POST /ai answer says its request read or wrote
C13_TouchedPaths(r) == {t[2] : t \in r.touched}

\* C13: POST /ai requests with different eventIds use different cache files:
\* of two requests answered one after the other with different eventIds,
\* the second reads and writes no file the first read or wrote, so it is
\* never served the text the first one generated and stored.
C13_DifferentIdsDifferentFiles ==
    [][(/\ resp.ep = "ai" /\ resp'.ep = "ai"
        /\ resp.eventId # <<>> /\ resp'.eventId # <<>>
        /\ resp'.eventId # resp.eventId)
       => /\ C13_TouchedPaths(resp) \cap C13_TouchedPaths(resp') = {}
          /\ ~(resp.stored /\ resp'.cached /\ resp'.text = resp.text)]_vars

\* a step in which the request of slot s, which carries an eventId, comes
\* back from its generation call and is answered
C14_Finishes(s) ==
    /\ ai[s].pc = "gen" /\ ai'[s].pc = "idle"
    /\ HasEventId(ai[s].body)

\* ... while another request with the same eventId, which also missed the
\* cache, still waits for its generation call
C14_FinishesFirstOfRace(s) ==
    /\ C14_Finishes(s)
    /\ \E u \in DOMAIN ai :
          /\ u # s /\ ai[u].pc = "gen" /\ HasEventId(ai[u].body)
          /\ ai[u].body.eventId = ai[s].body.eventId

\* the entry a request leaves when it writes all of its own content
C14_OwnEntry(body, text) ==
    [kind |-> "entry", text |-> text,
     meta |-> [title |-> OrNull(body.title), time |-> OrNull(body.time),
               description |-> OrNull(body.description), generatedAt |-> now]]

\* C14 as stated: of two requests with one eventId that both missed the
\* cache and overlap, each one whose generation call returns is answered 200
\* with cached:false and its own text, and writes the entry.
C14_RacersBothWrite ==
    [][\A s \in DOMAIN ai :
          (C14_FinishesFirstOfRace(s) /\ resp'.status = 200)
             => /\ resp'.cached = FALSE
                /\ resp'.text \in {"", RaceText(s)}
                /\ files'[CachePath(ai[s].body.eventId)]
                      = C14_OwnEntry(ai[s].body, resp'.text)]_vars

\* C14 as amended: every request that missed the cache and whose generation
\* call returns is answered 200 with cached:false and its own text, whatever
\* overlapping requests did meanwhile; when that text is non-empty and the
\* write succeeds, the file holds this request's whole entry and no other
\* file changes, otherwise no file changes.  A request that arrives when the
\* file holds an entry is answered 200 with cached:true and the text of the
\* entry, the one written last.
C14_LastWriteWins ==
    [][/\ \A s \in DOMAIN ai :
             C14_Finishes(s) =>
                LET p == CachePath(ai[s].body.eventId)
                IN  /\ resp'.status \in {200, 500}
                    /\ resp'.status = 500 => files' = files
                    /\ resp'.status = 200 =>
                          /\ resp'.cached = FALSE
                          /\ resp'.text \in {"", RaceText(s)}
                          /\ IF Truthy(resp'.text) /\ resp'.stored
                             THEN files' = [files EXCEPT ![p] =
                                               C14_OwnEntry(ai[s].body, resp'.text)]
                             ELSE files' = files
       /\ \A s \in DOMAIN ai :
             (ai[s].pc = "idle" /\ ai'[s].pc = "gen" /\ HasEventId(ai'[s].body))
                => files[CachePath(ai'[s].body.eventId)].kind # "entry"
       /\ (ai' = ai /\ resp' # resp /\ resp'.ep = "ai" /\ resp'.status = 200)
             => /\ resp'.cached = TRUE
                /\ resp'.text = files[CachePath(resp'.eventId)].text
                /\ files' = files]_vars

\* C14's case: the second of two overlapping requests with one eventId is
\* answered: the first had stored its text, this one was a miss all the same
\* and its different text is the one the file now holds
C14_SecondWriteReplacedFirst ==
    /\ resp.ep = "ai" /\ resp.status = 200 /\ resp.cached = FALSE
    /\ resp.stored /\ Truthy(resp.text)
    /\ resp.after.any /\ resp.after.status = 200
    /\ resp.after.cached = FALSE /\ resp.after.stored
    /\ resp.after.text # resp.text
    /\ files[CachePath(resp.eventId)].text = resp.text

\* an answer to a request that carried an eventId and at least one of
\* title/description/time, found the cache file of the eventId, could not
\* read or parse it, and was answered 200 after the generation call
C15_AnsweredPastCorruptFile ==
    /\ resp.ep = "ai" /\ resp.eventId # <<>>
    /\ <<"read", CachePath(resp.eventId)>> \in resp.touched
    /\ resp.gen /\ resp.status = 200

\* C15 as stated: a request that finds a cache file it cannot read or parse
\* is answered 200 with the generated text and cached:false, and a non-empty
\* text is then in the file as a valid entry.
C15_CorruptIsOverwritten ==
    C15_AnsweredPastCorruptFile =>
        /\ resp.cached = FALSE
        /\ Truthy(resp.text) =>
              /\ files[CachePath(resp.eventId)].kind = "entry"
              /\ files[CachePath(resp.eventId)].text = resp.text

\* C15 as amended: a request with an eventId and one of title/description/
\* time that finds a cache file it cannot read or parse is not answered from
\* it but goes on to the generation call; answered 200 it has cached:false,
\* and when its text is non-empty and the write succeeds the file holds a
\* valid entry with that text, so the next request for the eventId is a
\* cache hit with it; otherwise the file stays as it was.
C15_CorruptIsMissAndOverwrittenIfWritable ==
    [][/\ (/\ ai' = ai /\ resp' # resp /\ resp'.ep = "ai" /\ resp'.eventId # <<>>
           /\ files[CachePath(resp'.eventId)].kind = "corrupt")
          => (resp'.status = 400 /\ resp'.cached = FALSE)
       /\ C15_AnsweredPastCorruptFile =>
             /\ resp.cached = FALSE
             /\ IF Truthy(resp.text) /\ resp.stored
                THEN /\ files[CachePath(resp.eventId)].kind = "entry"
                     /\ files[CachePath(resp.eventId)].text = resp.text
                     /\ (/\ resp' # resp /\ resp'.ep = "ai"
                         /\ resp'.eventId = resp.eventId
                         /\ resp'.status # 400)
                        => (/\ resp'.status = 200 /\ resp'.cached = TRUE
                            /\ resp'.text = resp.text /\ ~resp'.gen)
                ELSE files[CachePath(resp.eventId)].kind = "corrupt"]_vars

\* C15's case: the generated text has replaced the unreadable file
C15_CorruptReplacedByEntry ==
    /\ C15_AnsweredPastCorruptFile
    /\ resp.stored /\ Truthy(resp.text)
    /\ files[CachePath(resp.eventId)].kind = "entry"

\* the first value of a sequence that is neither missing nor empty, '' when
\* there is none
C16_FirstGiven(seq) ==
    IF \E k \in 1 .. Len(seq) : Truthy(seq[k])
    THEN seq[CHOOSE k \in 1 .. Len(seq) :
                Truthy(seq[k]) /\ \A j \in 1 .. (k - 1) : ~Truthy(seq[j])]
    ELSE ""

\* a POST /ai answered 200 after its generation call
C16_Generated == resp.ep = "ai" /\ resp.gen /\ resp.status = 200

\* C16 as stated: the text of an answer after generation is the first given
\* of the result's direct text field, its response text and its first
\* candidate's first part, in this order, and '' when none is given.
C16_DirectTextFirst ==
    C16_Generated =>
        resp.text = C16_FirstGiven(<<probe.text, probe.responseText, probe.partText>>)

\* C16 as amended: ... the first non-empty one of the result's response
\* text, its direct text field and its first candidate's first part, in this
\* order, and '' when all are missing or empty.
C16_ResponseTextFirst ==
    C16_Generated =>
        resp.text = C16_FirstGiven(<<probe.responseText, probe.text, probe.partText>>)

\* C16's case: a result with a response text and another direct text
C16_BothGivenResponseTextWins ==
    /\ C16_Generated
    /\ probe.responseText = "t1" /\ probe.text = "t2"
    /\ resp.text = "t1"

====
